---- MODULE Spec2Model ----
(***************************************************************************)
(* A model of the DNS forwarding server: the wire codec (header, name,     *)
(* question, record, message), the response builders, forward_query and    *)
(* the receive loop of main.  Buffers are sequences of bytes (0..255);     *)
(* the code's 0-based positions are kept, At and Slice do the indexing.    *)
(***************************************************************************)
EXTENDS Integers, Sequences, FiniteSets, TLC

\* ------------------------------------------------------------------ bounds
MaxQuestions == 2
MaxBufLen == 5
MaxAnswers == 2

\* ------------------------------------------------------- program constants
MAX_JUMPS == 10
HeaderLen == 12
QrBit == 32768
U16 == 65536
ARecordTtl == 60
BufSize == 512

\* ----------------------------------------------------------------- helpers
At(bytes, i) == bytes[i + 1]

Slice(bytes, from, to) == SubSeq(bytes, from + 1, to)

Ok(v) == [ok |-> TRUE, val |-> v]

Err(e) == [ok |-> FALSE, err |-> e, panic |-> FALSE]

\* an arithmetic overflow or out-of-range index: the thread panics
Panic(e) == [ok |-> FALSE, err |-> e, panic |-> TRUE]

RECURSIVE BitAnd(_, _)
BitAnd(a, b) ==
    IF a = 0 \/ b = 0 THEN 0
    ELSE (IF a % 2 = 1 /\ b % 2 = 1 THEN 1 ELSE 0) + 2 * BitAnd(a \div 2, b \div 2)

RECURSIVE BitOr(_, _)
BitOr(a, b) ==
    IF a = 0 THEN b
    ELSE IF b = 0 THEN a
    ELSE (IF a % 2 = 1 \/ b % 2 = 1 THEN 1 ELSE 0) + 2 * BitOr(a \div 2, b \div 2)

RECURSIVE Pow2(_)
Pow2(n) == IF n = 0 THEN 1 ELSE 2 * Pow2(n - 1)

\* v << n and v >> n on u16 values
Shl(v, n) == (v * Pow2(n)) % U16

Shr(v, n) == v \div Pow2(n)

put_u16(v) == <<(v \div 256) % 256, v % 256>>

put_u32(v) == <<(v \div 16777216) % 256, (v \div 65536) % 256, (v \div 256) % 256, v % 256>>

get_u16(bytes, pos) == BitOr(Shl(At(bytes, pos), 8), At(bytes, pos + 1))

get_u32(bytes, pos) ==
    At(bytes, pos) * 16777216 + At(bytes, pos + 1) * 65536
        + At(bytes, pos + 2) * 256 + At(bytes, pos + 3)

\* ------------------------------------------------------------ header codec
DnsHeader(id, flags, qdcount, ancount, nscount, arcount) ==
    [id |-> id, flags |-> flags, qdcount |-> qdcount, ancount |-> ancount,
     nscount |-> nscount, arcount |-> arcount]

\* DnsHeader::new that leaves RD out of the response flags
DnsHeader_new_DropsRd(request_header, question_count, answer_count) ==
    LET opcode == BitAnd(Shr(request_header.flags, 11), 15)
        rcode == IF opcode = 0 THEN 0 ELSE 4
    IN  DnsHeader(request_header.id, BitOr(BitOr(Shl(1, 15), Shl(opcode, 11)), rcode),
                  question_count, answer_count, 0, 0)

\* DnsHeader::new that answers RCODE 0 whatever the OPCODE
DnsHeader_new_RcodeZero(request_header, question_count, answer_count) ==
    LET opcode == BitAnd(Shr(request_header.flags, 11), 15)
        rd == BitAnd(Shr(request_header.flags, 8), 1)
    IN  DnsHeader(request_header.id, BitOr(BitOr(Shl(1, 15), Shl(opcode, 11)), Shl(rd, 8)),
                  question_count, answer_count, 0, 0)

DnsHeader_new(request_header, question_count, answer_count) ==
    LET id == request_header.id
        opcode == BitAnd(Shr(request_header.flags, 11), 15)
        rd == BitAnd(Shr(request_header.flags, 8), 1)
        rcode == IF opcode = 0 THEN 0 ELSE 4
        flags == BitOr(BitOr(BitOr(Shl(1, 15), Shl(opcode, 11)), Shl(rd, 8)), rcode)
    IN  DnsHeader(id, flags, question_count, answer_count, 0, 0)

\* bytes[i] for every i of indices: an index at or past the length aborts
InBounds(bytes, indices) == \A i \in indices : i < Len(bytes)

Indexed(bytes, indices, result) ==
    IF ~InBounds(bytes, indices) THEN Panic("index out of bounds") ELSE result

\* &bytes[from..to]: a range that ends past the length or before its start aborts
ValidRange(bytes, from, to) == from <= to /\ to <= Len(bytes)

Sliced(bytes, from, to, result) ==
    IF ~ValidRange(bytes, from, to) THEN Panic("range out of bounds") ELSE result

DnsHeader_from_bytes(bytes) ==
    IF Len(bytes) < HeaderLen THEN Err("Header buffer too small")
    ELSE Indexed(bytes, 0 .. 11,
           Ok(DnsHeader(get_u16(bytes, 0), get_u16(bytes, 2), get_u16(bytes, 4),
                        get_u16(bytes, 6), get_u16(bytes, 8), get_u16(bytes, 10))))

DnsHeader_to_bytes(h) ==
    put_u16(h.id) \o put_u16(h.flags) \o put_u16(h.qdcount)
        \o put_u16(h.ancount) \o put_u16(h.nscount) \o put_u16(h.arcount)

\* -------------------------------------------------------------- name codec
\* "codecrafters.io" as the bytes of the string
CodecraftersIo == <<99, 111, 100, 101, 99, 114, 97, 102, 116, 101, 114, 115, 46, 105, 111>>

Dot == 46

\* domain.split('.'): the parts before each '.' and the last one
RECURSIVE SplitDots(_, _, _)
SplitDots(domain, part, parts) ==
    IF domain = <<>> THEN Append(parts, part)
    ELSE IF Head(domain) = Dot THEN SplitDots(Tail(domain), <<>>, Append(parts, part))
    ELSE SplitDots(Tail(domain), Append(part, Head(domain)), parts)

RECURSIVE EncodeParts(_, _)
EncodeParts(parts, encoded) ==
    IF parts = <<>> THEN Append(encoded, 0)
    ELSE LET part == Head(parts)
         IN  IF part # <<>>
             THEN EncodeParts(Tail(parts), encoded \o <<Len(part) % 256>> \o part)
             ELSE EncodeParts(Tail(parts), encoded)

encode_domain_name(domain) == EncodeParts(SplitDots(domain, <<>>, <<>>), <<>>)

\* bytes_consumed that leaves the terminating zero out
BytesConsumed_WithoutTerminator(start_pos, position, is_compressed, first_jump_pos) ==
    IF ~is_compressed THEN position - start_pos
    ELSE first_jump_pos - start_pos + 2

\* bytes_consumed that counts to the end of the pointed-to name
BytesConsumed_ThroughPointer(start_pos, position, is_compressed, first_jump_pos) ==
    position - start_pos + 1

\* bytes_consumed at the terminating zero of a name
BytesConsumed(start_pos, position, is_compressed, first_jump_pos) ==
    IF ~is_compressed THEN position - start_pos + 1
    ELSE first_jump_pos - start_pos + 2

\* the local variables of parse_domain_name
NameState(position, name, jumps, is_compressed, first_jump_pos) ==
    [position |-> position, name |-> name, jumps |-> jumps,
     is_compressed |-> is_compressed, first_jump_pos |-> first_jump_pos]

Returns(res) == [done |-> TRUE, res |-> res]

Continues(st) == [done |-> FALSE, st |-> st]

\* one iteration that follows pointers without counting them
NameIteration_NoJumpLimit(bytes, start_pos, st) ==
    IF st.position >= Len(bytes) THEN Returns(Err("Unexpected end of domain name"))
    ELSE LET length == At(bytes, st.position) IN
      IF length = 0
      THEN Returns(Ok([name |-> Append(st.name, 0),
                       consumed |-> BytesConsumed(start_pos, st.position,
                                                  st.is_compressed, st.first_jump_pos)]))
      ELSE IF BitAnd(length, 192) = 192
      THEN IF st.position + 1 >= Len(bytes)
           THEN Returns(Err("Incomplete compression pointer"))
           ELSE Continues(NameState(
                    BitOr(BitAnd(length, 63) * 256, At(bytes, st.position + 1)),
                    st.name, st.jumps + 1, TRUE,
                    IF ~st.is_compressed THEN st.position ELSE st.first_jump_pos))
      ELSE IF st.position + 1 + length > Len(bytes)
      THEN Returns(Err("Domain name exceeds buffer size"))
      ELSE Continues(NameState(
               st.position + 1 + length,
               Append(st.name, length)
                   \o Slice(bytes, st.position + 1, st.position + 1 + length),
               st.jumps, st.is_compressed, st.first_jump_pos))

\* one iteration of the loop of parse_domain_name
NameIteration(bytes, start_pos, st) ==
    IF st.position >= Len(bytes) THEN Returns(Err("Unexpected end of domain name"))
    ELSE IF ~InBounds(bytes, {st.position})
    THEN Returns(Panic("index out of bounds"))
    ELSE LET length == At(bytes, st.position) IN
      IF length = 0
      THEN IF (~st.is_compressed /\ st.position < start_pos)
                \/ (st.is_compressed /\ st.first_jump_pos < start_pos)
           THEN Returns(Panic("attempt to subtract with overflow"))
           ELSE Returns(Ok([name |-> Append(st.name, 0),
                            consumed |-> BytesConsumed(start_pos, st.position,
                                                       st.is_compressed,
                                                       st.first_jump_pos)]))
      ELSE IF BitAnd(length, 192) = 192
      THEN IF st.position + 1 >= Len(bytes)
           THEN Returns(Err("Incomplete compression pointer"))
           ELSE IF ~InBounds(bytes, {st.position + 1})
           THEN Returns(Panic("index out of bounds"))
           ELSE LET first == IF ~st.is_compressed THEN st.position
                             ELSE st.first_jump_pos
                    offset == BitOr(BitAnd(length, 63) * 256,
                                    At(bytes, st.position + 1))
                IN  IF st.jumps + 1 > MAX_JUMPS
                    THEN Returns(Err("Too many compression pointers, possible loop"))
                    ELSE Continues(NameState(offset, st.name, st.jumps + 1, TRUE,
                                             first))
      ELSE IF st.position + 1 + length > Len(bytes)
      THEN Returns(Err("Domain name exceeds buffer size"))
      ELSE IF ~ValidRange(bytes, st.position + 1, st.position + 1 + length)
      THEN Returns(Panic("range out of bounds"))
      ELSE Continues(NameState(
               st.position + 1 + length,
               Append(st.name, length)
                   \o Slice(bytes, st.position + 1, st.position + 1 + length),
               st.jumps, st.is_compressed, st.first_jump_pos))

RECURSIVE ParseNameLoop(_, _, _, _, _, _, _)

\* after an iteration: the function returns, or the loop goes on
LoopOn(bytes, start_pos, it) ==
    IF it.done THEN it.res
    ELSE ParseNameLoop(bytes, start_pos, it.st.position, it.st.name, it.st.jumps,
                       it.st.is_compressed, it.st.first_jump_pos)

\* the loop of parse_domain_name, one iteration per unfolding
ParseNameLoop(bytes, start_pos, position, name, jumps, is_compressed, first_jump_pos) ==
    LoopOn(bytes, start_pos,
           NameIteration(bytes, start_pos,
                         NameState(position, name, jumps, is_compressed,
                                   first_jump_pos)))

parse_domain_name(bytes, start_pos) ==
    ParseNameLoop(bytes, start_pos, start_pos, <<>>, 0, FALSE, 0)

\* the name parser DnsRecord::from_bytes calls; the question module of the
\* sources defines no function of this name, the Name Codec decode is used
parse_name_from(bytes, start_pos) == parse_domain_name(bytes, start_pos)

\* ---------------------------------------------------------- question codec
DnsQuestion(name, record_type, class) ==
    [name |-> name, record_type |-> record_type, class |-> class]

DnsQuestion_new == DnsQuestion(encode_domain_name(CodecraftersIo), 1, 1)

\* the type and the class read without the length check
QuestionFields_Unchecked(bytes, start_pos, parsed) ==
    IF ~parsed.ok THEN parsed
    ELSE LET bytes_consumed == parsed.val.consumed
             next_pos == start_pos + bytes_consumed
         IN  Indexed(bytes, next_pos .. next_pos + 3,
               Ok([item |-> DnsQuestion(parsed.val.name, get_u16(bytes, next_pos),
                                        get_u16(bytes, next_pos + 2)),
                   consumed |-> bytes_consumed + 4]))

\* from_bytes once the name is parsed: its error, or the type and the class
QuestionFields(bytes, start_pos, parsed) ==
    IF ~parsed.ok THEN parsed
    ELSE LET bytes_consumed == parsed.val.consumed
             next_pos == start_pos + bytes_consumed
         IN  IF Len(bytes) < next_pos + 4
             THEN Err("Buffer too small for question record type and class")
             ELSE Indexed(bytes, next_pos .. next_pos + 3,
                    Ok([item |-> DnsQuestion(parsed.val.name,
                                             get_u16(bytes, next_pos),
                                             get_u16(bytes, next_pos + 2)),
                        consumed |-> bytes_consumed + 4]))

DnsQuestion_from_bytes(bytes, start_pos) ==
    IF Len(bytes) <= start_pos THEN Err("Buffer too small for question section")
    ELSE QuestionFields(bytes, start_pos, parse_domain_name(bytes, start_pos))

DnsQuestion_to_bytes(q) == q.name \o put_u16(q.record_type) \o put_u16(q.class)

\* ------------------------------------------------------------ record codec
DnsRecord(name, record_type, class, ttl, rdata) ==
    [name |-> name, record_type |-> record_type, class |-> class, ttl |-> ttl,
     rdata |-> rdata]

DnsRecord_new(domain_name, ipv4) == DnsRecord(domain_name, 1, 1, ARecordTtl, ipv4)

DefaultIp == <<76, 76, 21, 21>>

default_codecrafters_record == DnsRecord_new(encode_domain_name(CodecraftersIo), DefaultIp)

DnsRecord_to_bytes(r) ==
    r.name \o put_u16(r.record_type) \o put_u16(r.class) \o put_u32(r.ttl)
        \o put_u16(Len(r.rdata) % U16) \o r.rdata

\* from_bytes once the name is parsed: its error, or the fields and the data
RecordFields(bytes, start_pos, parsed) ==
    IF ~parsed.ok THEN parsed
    ELSE LET name_bytes_consumed == parsed.val.consumed
             record_start == start_pos + name_bytes_consumed
         IN  IF Len(bytes) < record_start + 10
             THEN Err("Buffer too small for record fields")
             ELSE Indexed(bytes, record_start .. record_start + 9,
               LET rdlength == get_u16(bytes, record_start + 8) IN
               IF Len(bytes) < record_start + 10 + rdlength
               THEN Err("Buffer too small for record data")
               ELSE Sliced(bytes, record_start + 10, record_start + 10 + rdlength,
                      Ok([item |-> DnsRecord(parsed.val.name,
                                             get_u16(bytes, record_start),
                                             get_u16(bytes, record_start + 2),
                                             get_u32(bytes, record_start + 4),
                                             Slice(bytes, record_start + 10,
                                                   record_start + 10 + rdlength)),
                          consumed |-> name_bytes_consumed + 10 + rdlength])))

DnsRecord_from_bytes(bytes, start_pos) ==
    IF Len(bytes) <= start_pos THEN Err("Buffer too small for record")
    ELSE RecordFields(bytes, start_pos, parse_name_from(bytes, start_pos))

\* ----------------------------------------------------------------- message
DnsMessage(header, questions, answers) ==
    [header |-> header, questions |-> questions, answers |-> answers]

RECURSIVE ParseQuestions(_, _, _, _)

\* the body of the question loop: the error is returned, or the question is
\* pushed and the position advanced
QuestionParsed(bytes, position, remaining, questions, q) ==
    IF ~q.ok THEN q
    ELSE ParseQuestions(bytes, position + q.val.consumed, remaining - 1,
                        Append(questions, q.val.item))

\* for _ in 0..header.qdcount: any question error is returned
ParseQuestions(bytes, position, remaining, questions) ==
    IF remaining = 0 THEN Ok([items |-> questions, position |-> position])
    ELSE QuestionParsed(bytes, position, remaining, questions,
                        DnsQuestion_from_bytes(bytes, position))

RECURSIVE ParseAnswers(_, _, _, _)

\* a loop body that returns the record error instead of stopping
RecordParsed_Propagates(bytes, position, remaining, answers, r) ==
    IF ~r.ok THEN r
    ELSE ParseAnswers(bytes, position + r.val.consumed, remaining - 1,
                      Append(answers, r.val.item))

\* the body of the answer loop: the first record error ends the loop; an
\* abort inside the record decoder is no error value and ends the process
RecordParsed(bytes, position, remaining, answers, r) ==
    IF ~r.ok THEN (IF r.panic THEN r ELSE Ok(answers))
    ELSE ParseAnswers(bytes, position + r.val.consumed, remaining - 1,
                      Append(answers, r.val.item))

\* for _ in 0..header.ancount
ParseAnswers(bytes, position, remaining, answers) ==
    IF remaining = 0 THEN Ok(answers)
    ELSE RecordParsed(bytes, position, remaining, answers,
                      DnsRecord_from_bytes(bytes, position))

\* from_bytes after the answer loop
WithAnswers(header, questions, answers) ==
    IF ~answers.ok THEN answers
    ELSE Ok(DnsMessage(header.val, questions.val.items, answers.val))

\* from_bytes after the question loop
WithQuestions(bytes, header, questions) ==
    IF ~questions.ok THEN questions
    ELSE WithAnswers(header, questions,
                     ParseAnswers(bytes, questions.val.position, header.val.ancount,
                                  <<>>))

\* from_bytes after the header
WithHeader(bytes, header) ==
    IF ~header.ok THEN header
    ELSE WithQuestions(bytes, header,
                       ParseQuestions(bytes, HeaderLen, header.val.qdcount, <<>>))

DnsMessage_from_bytes(bytes) == WithHeader(bytes, DnsHeader_from_bytes(bytes))

\* the record type left as the request has it
NormalizedType_AsParsed(question) == question.record_type

\* the record type DnsMessage::new answers for
NormalizedType(question) ==
    IF question.record_type = 1 \/ question.record_type > 1000 THEN 1
    ELSE question.record_type

RECURSIVE ValidQuestions(_)
ValidQuestions(questions) ==
    IF questions = <<>> THEN <<>>
    ELSE LET question == Head(questions) IN
         (IF NormalizedType(question) = 1
          THEN <<DnsQuestion(question.name, 1, 1)>> ELSE <<>>)
             \o ValidQuestions(Tail(questions))

RECURSIVE SelfAnswers(_)
SelfAnswers(questions) ==
    IF questions = <<>> THEN <<>>
    ELSE LET question == Head(questions) IN
         (IF NormalizedType(question) = 1
          THEN <<DnsRecord_new(question.name, DefaultIp)>> ELSE <<>>)
             \o SelfAnswers(Tail(questions))

DnsMessage_new(request_header, questions) ==
    LET valid_questions == ValidQuestions(questions)
        answers == SelfAnswers(questions)
    IN  DnsMessage(DnsHeader_new(request_header, Len(valid_questions) % U16,
                                 Len(answers) % U16),
                   valid_questions, answers)

new_response_from_request(request) == DnsMessage_new(request.header, request.questions)

\* the header-only response without its answer record
new_response_from_request_header_NoAnswer(request_header) ==
    DnsMessage(DnsHeader_new(request_header, 1, 0), <<DnsQuestion_new>>, <<>>)

new_response_from_request_header(request_header) ==
    LET dns_questions == <<DnsQuestion_new>>
        dns_answers == <<default_codecrafters_record>>
    IN  DnsMessage(DnsHeader_new(request_header, Len(dns_questions) % U16,
                                 Len(dns_answers) % U16),
                   dns_questions, dns_answers)

RECURSIVE QuestionsBytes(_)
QuestionsBytes(questions) ==
    IF questions = <<>> THEN <<>>
    ELSE DnsQuestion_to_bytes(Head(questions)) \o QuestionsBytes(Tail(questions))

RECURSIVE AnswersBytes(_)
AnswersBytes(answers) ==
    IF answers = <<>> THEN <<>>
    ELSE DnsRecord_to_bytes(Head(answers)) \o AnswersBytes(Tail(answers))

DnsMessage_to_bytes(m) ==
    DnsHeader_to_bytes(m.header) \o QuestionsBytes(m.questions) \o AnswersBytes(m.answers)

to_forwarded_request_bytes(m) ==
    put_u16(m.header.id) \o put_u16(BitAnd(m.header.flags, QrBit - 1))
        \o put_u16(m.header.qdcount) \o put_u16(0) \o put_u16(0) \o put_u16(0)
        \o QuestionsBytes(m.questions)

\* forward_query, split mode: the combined response before any sub-query
CombinedTemplate(request) ==
    DnsMessage(DnsHeader(request.header.id, QrBit, request.header.qdcount, 0, 0, 0),
               request.questions, <<>>)

\* forward_query, split mode: the query sent for one question
SingleQuestionRequest(request, question) ==
    DnsMessage(DnsHeader(request.header.id, BitAnd(request.header.flags, QrBit - 1),
                         1, 0, 0, 0),
               <<question>>, <<>>)

\* ------------------------------------------------------------------ inputs
NameA == <<1, 97, 0>>

NameB == <<1, 98, 0>>

TypeA == 1

TypeAAAA == 28

ClassIN == 1

\* the questions a client asks
ClientQuestions == {DnsQuestion(NameA, TypeA, ClassIN), DnsQuestion(NameB, TypeAAAA, ClassIN)}

\* (id, flags) of the client's requests: RD set, and OPCODE 1
ClientHeaders == {<<4660, 256>>, <<7, 2048>>}

RECURSIVE SeqsUpTo(_, _)
SeqsUpTo(S, n) ==
    IF n = 0 THEN {<<>>}
    ELSE LET shorter == SeqsUpTo(S, n - 1)
         IN  shorter \cup {Append(q, x) : q \in {t \in shorter : Len(t) = n - 1}, x \in S}

ClientRequest(h, questions) ==
    DnsMessage(DnsHeader(h[1], h[2], Len(questions), 0, 0, 0), questions, <<>>)

\* request S1: 1234 0100 0001 0000 0000 0000, then codecrafters.io A IN
RequestS1 ==
    <<18, 52, 1, 0, 0, 1, 0, 0, 0, 0, 0, 0,
      12, 99, 111, 100, 101, 99, 114, 97, 102, 116, 101, 114, 115, 2, 105, 111, 0,
      0, 1, 0, 1>>

\* the datagrams a client sends: well-formed requests, a request cut inside
\* its question, a request shorter than a header, a header announcing a
\* question that is not there
ClientDatagrams ==
    {DnsMessage_to_bytes(ClientRequest(h, qs)) :
        h \in ClientHeaders, qs \in SeqsUpTo(ClientQuestions, MaxQuestions)}
    \cup {RequestS1, SubSeq(RequestS1, 1, 20), SubSeq(RequestS1, 1, 5),
          DnsHeader_to_bytes(DnsHeader(7, 256, 1, 0, 0, 0))}

RecordA == DnsRecord(NameA, TypeA, ClassIN, 300, <<1, 2, 3, 4>>)

RecordB == DnsRecord(NameB, TypeAAAA, ClassIN, 5, <<0, 1, 0, 2, 0, 3, 0, 4, 0, 5, 0, 6, 0, 7, 0, 8>>)

UpstreamQuestion == DnsQuestion(NameA, TypeA, ClassIN)

\* what the upstream resolver may put in a datagram: its own id, flags and
\* counts, complete or cut-off records, a compressed name, a runt
UpstreamDatagrams ==
    { DnsMessage_to_bytes(DnsMessage(DnsHeader(4660, 33152, 1, 1, 0, 0),
                                     <<UpstreamQuestion>>, <<RecordA>>)),
      DnsMessage_to_bytes(DnsMessage(DnsHeader(48879, 33152, 1, 2, 0, 0),
                                     <<UpstreamQuestion>>, <<RecordA, RecordB>>)),
      DnsMessage_to_bytes(DnsMessage(DnsHeader(4660, 33152, 0, 1, 0, 0), <<>>, <<>>)),
      DnsMessage_to_bytes(DnsMessage(DnsHeader(4660, 33152, 1, 2, 0, 0),
                                     <<UpstreamQuestion>>, <<RecordA>>)) \o <<1, 97>>,
      DnsMessage_to_bytes(DnsMessage(DnsHeader(7, 33152, 1, 1, 1, 1),
                                     <<UpstreamQuestion>>, <<RecordA>>)),
      DnsMessage_to_bytes(DnsMessage(DnsHeader(7, 33155, 1, 0, 0, 0),
                                     <<UpstreamQuestion>>, <<>>)),
      DnsHeader_to_bytes(DnsHeader(4660, 33152, 1, 1, 0, 0)),
      DnsHeader_to_bytes(DnsHeader(4660, 33152, 1, 1, 0, 0))
          \o DnsQuestion_to_bytes(UpstreamQuestion)
          \o <<192, 12>> \o put_u16(TypeA) \o put_u16(ClassIN) \o put_u32(300)
          \o put_u16(4) \o <<9, 9, 9, 9>>,
      <<18, 52, 129>> }

\* recv_from into a buffer of BufSize bytes: the datagram's first BufSize bytes
recv_from(d) == SubSeq(d, 1, IF Len(d) < BufSize THEN Len(d) ELSE BufSize)

\* ------------------------------------------------------------------- state
VARIABLES
    pc,         \* where main is: start, recv, header_fallback, forward, ...
    datagram,   \* buf[..size] of the last recv_from on the listening socket
    request,    \* DnsMessage::from_bytes of that datagram
    idx,        \* split mode: the question the loop of forward_query is at
    combined,   \* split mode: combined_response
    upLog,      \* the I/O on the forwarding socket for this datagram
    result,     \* what forward_query returned
    response,   \* the message main handed to send_to for this datagram
    sends,      \* send_to calls on the listening socket for this datagram
    net,        \* the sub-queries whose reply is on its way to the forwarding socket
    fn,         \* codec specifications: the function to apply next
    arg,        \* codec specifications: its argument
    ret         \* codec specifications: its result

vars ==
    <<pc, datagram, request, idx, combined, upLog, result, response, sends, net,
      fn, arg, ret>>

serverVars ==
    <<pc, datagram, request, idx, combined, upLog, result, response, sends, net>>

codecVars == <<fn, arg, ret>>

NoMsg == DnsMessage(DnsHeader(0, 0, 0, 0, 0, 0), <<>>, <<>>)

NoResult == Err("")

NoResponse == [kind |-> "none", msg |-> NoMsg, wire |-> <<>>]

ServerInit ==
    /\ pc = "start"
    /\ datagram = <<>>
    /\ request = NoResult
    /\ idx = 0
    /\ combined = NoMsg
    /\ upLog = <<>>
    /\ result = NoResult
    /\ response = NoResponse
    /\ sends = 0
    /\ net = {}

CodecIdle == fn = "" /\ arg = <<>> /\ ret = <<>>

Init == ServerInit /\ CodecIdle

\* -------------------------------------------------------------------- main
\* UdpSocket::bind("127.0.0.1:2053").expect(..)
ListenBind ==
    /\ pc = "start"
    /\ \E ok \in BOOLEAN : pc' = IF ok THEN "recv" ELSE "bind_panic"
    /\ UNCHANGED <<datagram, request, idx, combined, upLog, result, response, sends>>
    /\ UNCHANGED codecVars
    /\ UNCHANGED net

\* loop top: recv_from returns one of the datagrams, DnsMessage::from_bytes
\* decodes it
Decoded(bytes, parsed) ==
    /\ datagram' = bytes
    /\ request' = parsed
    /\ pc' = IF parsed.ok THEN "forward"
             ELSE IF parsed.panic THEN "decode_panic"
             ELSE "header_fallback"

Receive(datagrams) ==
    /\ pc = "recv"
    /\ \E d \in datagrams : Decoded(recv_from(d), DnsMessage_from_bytes(recv_from(d)))
    /\ idx' = 0
    /\ combined' = NoMsg
    /\ upLog' = <<>>
    /\ result' = NoResult
    /\ response' = NoResponse
    /\ sends' = 0
    /\ net' = {}
    /\ UNCHANGED codecVars

ReceiveDatagram == Receive(ClientDatagrams)

\* loop top: recv_from fails, the loop breaks and main returns
ReceiveError ==
    /\ pc = "recv"
    /\ pc' = "exited"
    /\ UNCHANGED <<datagram, request, idx, combined, upLog, result, response, sends>>
    /\ UNCHANGED codecVars
    /\ UNCHANGED net

\* send_to(..).expect(..) on the listening socket
SendToClient(kind, msg) ==
    /\ response' = [kind |-> kind, msg |-> msg, wire |-> DnsMessage_to_bytes(msg)]
    /\ sends' = sends + 1
    /\ \E ok \in BOOLEAN : pc' = IF ok THEN "recv" ELSE "send_panic"

\* the request did not decode: answer from its header alone, if that parses
HeaderFallback ==
    /\ pc = "header_fallback"
    /\ LET header == DnsHeader_from_bytes(datagram) IN
         IF header.ok
         THEN SendToClient("header_only", new_response_from_request_header(header.val))
         ELSE pc' = "recv" /\ UNCHANGED <<response, sends>>
    /\ UNCHANGED <<datagram, request, idx, combined, upLog, result>>
    /\ UNCHANGED codecVars
    /\ UNCHANGED net

\* forward_query returned Ok: the forwarded response is sent
SendForwarded ==
    /\ pc = "send_forwarded"
    /\ SendToClient("forwarded", result.val)
    /\ UNCHANGED <<datagram, request, idx, combined, upLog, result>>
    /\ UNCHANGED codecVars
    /\ UNCHANGED net

\* forward_query returned Err: the self-answered response is sent
SendFallback ==
    /\ pc = "send_fallback"
    /\ SendToClient("fallback", new_response_from_request(request.val))
    /\ UNCHANGED <<datagram, request, idx, combined, upLog, result>>
    /\ UNCHANGED codecVars
    /\ UNCHANGED net

\* ----------------------------------------------------------- forward_query
Returned(res) ==
    /\ result' = res
    /\ pc' = IF res.ok THEN "send_forwarded"
             ELSE IF res.panic THEN "decode_panic"
             ELSE "send_fallback"

\* one send_to or recv_from on the forwarding socket: the question it is for,
\* whether it succeeded, and the bytes handed to send_to
LogIo(op, i, ok, bytes) ==
    upLog' = Append(upLog, [op |-> op, q |-> i, ok |-> ok, bytes |-> bytes])

\* UdpSocket::bind("0.0.0.0:0")
FwdBind ==
    /\ pc = "forward"
    /\ \E ok \in BOOLEAN :
         IF ok THEN pc' = "fwd_timeout" /\ UNCHANGED result
         ELSE Returned(Err("Failed to bind UDP socket for forwarding"))
    /\ UNCHANGED <<datagram, request, idx, combined, upLog, response, sends>>
    /\ UNCHANGED codecVars
    /\ UNCHANGED net

\* set_read_timeout, then the choice of split mode and its combined response
FwdSetTimeout ==
    /\ pc = "fwd_timeout"
    /\ \E ok \in BOOLEAN :
         IF ~ok
         THEN Returned(Err("Failed to set socket timeout")) /\ UNCHANGED <<idx, combined>>
         ELSE IF Len(request.val.questions) > 1
         THEN /\ combined' = CombinedTemplate(request.val)
              /\ idx' = 1
              /\ pc' = "split_send"
              /\ UNCHANGED result
         ELSE pc' = "single_send" /\ UNCHANGED <<idx, combined, result>>
    /\ UNCHANGED <<datagram, request, upLog, response, sends>>
    /\ UNCHANGED codecVars
    /\ UNCHANGED net

\* the loop moves to the next question, or leaves the loop after the last
NextQuestion ==
    IF idx < Len(request.val.questions)
    THEN idx' = idx + 1 /\ pc' = "split_send"
    ELSE idx' = idx /\ pc' = "split_done"

\* split mode: send_to of the single-question request; an error continues
SplitSend ==
    /\ pc = "split_send"
    /\ \E ok \in BOOLEAN :
         /\ LogIo("send", idx, ok,
                  to_forwarded_request_bytes(
                      SingleQuestionRequest(request.val, request.val.questions[idx])))
         /\ IF ok THEN pc' = "split_recv" /\ idx' = idx ELSE NextQuestion
         /\ net' = IF ok THEN net \cup {idx} ELSE net
    /\ UNCHANGED <<datagram, request, combined, result, response, sends>>
    /\ UNCHANGED codecVars

\* split mode: recv_from returned datagram d; its answers are appended when
\* it decodes
SplitDecoded(parsed) ==
    /\ combined' = IF parsed.ok
                   THEN [combined EXCEPT !.answers = @ \o parsed.val.answers]
                   ELSE combined
    /\ IF ~parsed.ok /\ parsed.panic
       THEN idx' = idx /\ pc' = "decode_panic"
       ELSE NextQuestion

SplitReceived(d) ==
    /\ SplitDecoded(DnsMessage_from_bytes(recv_from(d)))
    /\ LogIo("recv", idx, TRUE, <<>>)
    /\ UNCHANGED <<datagram, request, result, response, sends>>
    /\ UNCHANGED codecVars

\* split mode: recv_from returns whatever datagram reaches the socket
SplitRecv ==
    /\ pc = "split_recv"
    /\ \E d \in UpstreamDatagrams : SplitReceived(d)
    /\ UNCHANGED net

\* the reply of a resolver that answers the question it was sent: the
\* question and n address records under the question's name, or the bare
\* header for a query without a question
UpstreamReply(req, i, n) ==
    IF i > Len(req.questions)
    THEN DnsHeader_to_bytes(DnsHeader(req.header.id, 33152, 0, 0, 0, 0))
    ELSE LET question == req.questions[i] IN
      DnsMessage_to_bytes(
          DnsMessage(DnsHeader(req.header.id, 33152, 1, n, 0, 0), <<question>>,
                     [k \in 1 .. n |->
                         DnsRecord(question.name, question.record_type,
                                   question.class, 300, <<10, 0, i, k>>)]))

\* split mode: recv_from returns one of the replies on their way, whichever
\* sub-query it answers
SplitRecvDelayed ==
    /\ pc = "split_recv"
    /\ \E i \in net, n \in 0 .. MaxAnswers :
         /\ SplitReceived(UpstreamReply(request.val, i, n))
         /\ net' = net \ {i}

\* a receive error that leaves the loop
SplitRecvError_Breaks ==
    /\ pc = "split_recv"
    /\ LogIo("recv", idx, FALSE, <<>>)
    /\ idx' = idx
    /\ pc' = "split_done"
    /\ UNCHANGED <<datagram, request, combined, result, response, sends>>
    /\ UNCHANGED codecVars
    /\ UNCHANGED net

\* split mode: recv_from fails or times out; the loop continues
SplitRecvError ==
    /\ pc = "split_recv"
    /\ LogIo("recv", idx, FALSE, <<>>)
    /\ NextQuestion
    /\ UNCHANGED <<datagram, request, combined, result, response, sends>>
    /\ UNCHANGED codecVars
    /\ UNCHANGED net

\* the split result that is Ok even with no answer
SplitResult_NeverEmptyError(c) == Ok([c EXCEPT !.header.ancount = Len(c.answers) % U16])

\* split mode, after the loop: ancount is set, no answers is an error
SplitResult(c) ==
    LET counted == [c EXCEPT !.header.ancount = Len(c.answers) % U16] IN
    IF counted.answers = <<>>
    THEN Err("Failed to get any answers for the split queries")
    ELSE Ok(counted)

SplitFinish ==
    /\ pc = "split_done"
    /\ combined' = [combined EXCEPT !.header.ancount = Len(combined.answers) % U16]
    /\ Returned(SplitResult(combined))
    /\ UNCHANGED <<datagram, request, idx, upLog, response, sends>>
    /\ UNCHANGED codecVars
    /\ UNCHANGED net

\* single question: send_to of the forwarded request; an error is returned
SingleSend ==
    /\ pc = "single_send"
    /\ \E ok \in BOOLEAN :
         /\ LogIo("send", 1, ok, to_forwarded_request_bytes(request.val))
         /\ IF ok THEN pc' = "single_recv" /\ UNCHANGED result
            ELSE Returned(Err("Failed to send request to external DNS server"))
         /\ net' = IF ok THEN net \cup {1} ELSE net
    /\ UNCHANGED <<datagram, request, idx, combined, response, sends>>
    /\ UNCHANGED codecVars

\* the single-question result that keeps the upstream's id
SingleResult_KeepsUpstreamId(req, bytes) == DnsMessage_from_bytes(bytes)

\* response.header.id = request.header.id on a reply that decoded
WithRequestId(req, parsed) ==
    IF parsed.ok THEN Ok([parsed.val EXCEPT !.header.id = req.header.id])
    ELSE parsed

\* single question: the decoded reply with the request's id, or its error
SingleResult(req, bytes) == WithRequestId(req, DnsMessage_from_bytes(bytes))

SingleReceived(d) ==
    /\ Returned(SingleResult(request.val, recv_from(d)))
    /\ LogIo("recv", 1, TRUE, <<>>)
    /\ UNCHANGED <<datagram, request, idx, combined, response, sends>>
    /\ UNCHANGED codecVars

SingleRecv ==
    /\ pc = "single_recv"
    /\ \E d \in UpstreamDatagrams : SingleReceived(d)
    /\ UNCHANGED net

\* single question: recv_from returns the reply on its way
SingleRecvDelayed ==
    /\ pc = "single_recv"
    /\ \E i \in net, n \in 0 .. MaxAnswers :
         /\ SingleReceived(UpstreamReply(request.val, i, n))
         /\ net' = net \ {i}

SingleRecvError ==
    /\ pc = "single_recv"
    /\ Returned(Err("Failed to receive response from external DNS server"))
    /\ LogIo("recv", 1, FALSE, <<>>)
    /\ UNCHANGED <<datagram, request, idx, combined, response, sends>>
    /\ UNCHANGED codecVars
    /\ UNCHANGED net

Next ==
    \/ ListenBind
    \/ ReceiveDatagram
    \/ ReceiveError
    \/ HeaderFallback
    \/ FwdBind
    \/ FwdSetTimeout
    \/ SplitSend
    \/ SplitRecv
    \/ SplitRecvError
    \/ SplitFinish
    \/ SingleSend
    \/ SingleRecv
    \/ SingleRecvError
    \/ SendForwarded
    \/ SendFallback

Spec == Init /\ [][Next]_vars

\* ------------------------------------------------------- the server's claims
Sent == response.kind # "none"

\* C1: every message sent to a client has qdcount equal to the number of
\* questions it serializes and ancount equal to the number of answers
C1_CountsMatchSections ==
    Sent => /\ response.msg.header.qdcount = Len(response.msg.questions)
            /\ response.msg.header.ancount = Len(response.msg.answers)

\* C2: every message sent to a client has nscount = 0 and arcount = 0
C2_NoAuthorityNoAdditional ==
    Sent => /\ response.msg.header.nscount = 0
            /\ response.msg.header.arcount = 0
            /\ SubSeq(response.wire, 9, 12) = <<0, 0, 0, 0>>

\* C3: every response datagram carries, in its first two bytes, the id of the
\* request datagram that triggered it
C3_IdPreserved ==
    Sent => SubSeq(response.wire, 1, 2) = SubSeq(datagram, 1, 2)

\* a single-question forward of request id 7 answered by the upstream reply
\* that carries id 0xBEEF and two records
C3_Witness ==
    /\ response.kind = "forwarded"
    /\ Len(request.val.questions) = 1
    /\ SubSeq(datagram, 1, 2) = <<0, 7>>
    /\ response.msg.answers = <<RecordA, RecordB>>

ForwardReturned == pc \in {"send_forwarded", "send_fallback"}

SplitRequest == request.ok /\ Len(request.val.questions) > 1

SplitOkShape ==
    /\ result.val.questions = request.val.questions
    /\ result.val.header.qdcount = request.val.header.qdcount
    /\ result.val.answers = combined.answers
    /\ result.val.header.ancount = Len(combined.answers)
    /\ result.val.header.id = request.val.header.id
    /\ result.val.header.flags = 32768

\* forward_query returned from split mode: the forwarding socket was bound, its
\* timeout set and the loop over the questions entered
SplitModeReturned == ForwardReturned /\ SplitRequest /\ idx >= 1

\* C6: with more than one question, split mode returns Ok exactly when an
\* answer was accumulated over the sub-queries and NoUpstreamAnswers otherwise;
\* an Ok result has the request's questions, qdcount and id, ancount = the
\* number of accumulated answers and flags 0x8000
C6_SplitResult ==
    SplitModeReturned =>
        /\ result.ok <=> combined.answers # <<>>
        /\ ~result.ok => result.err = "Failed to get any answers for the split queries"
        /\ result.ok => SplitOkShape
        /\ idx = Len(request.val.questions)

\* a two-question request whose sub-queries brought three answers
C6_Witness ==
    /\ pc = "send_forwarded"
    /\ SplitRequest
    /\ Len(request.val.questions) = 2
    /\ Len(result.val.answers) = 3

Handled == pc \in {"recv", "send_panic"} /\ datagram # <<>>

\* C7: once a datagram is handled (main is back at recv_from, or send_to
\* failed), exactly one send_to was made for it: the self-answered response of
\* the decoded request when forward_query returned an error, the forwarded
\* message when it returned Ok, the codecrafters.io question and A record under
\* the derived header when only the header parsed; nothing is received between
\* a datagram and its response
C7_FallbackPolicy ==
    /\ Handled =>
        LET req == DnsMessage_from_bytes(datagram)
            hdr == DnsHeader_from_bytes(datagram)
        IN  /\ (req.ok /\ ~result.ok) =>
                  /\ sends = 1
                  /\ response.kind = "fallback"
                  /\ response.msg = new_response_from_request(req.val)
            /\ (req.ok /\ result.ok) =>
                  /\ sends = 1
                  /\ response.kind = "forwarded"
                  /\ response.msg = result.val
            /\ (~req.ok /\ hdr.ok) =>
                  /\ sends = 1
                  /\ response.kind = "header_only"
                  /\ response.msg.header = DnsHeader_new(hdr.val, 1, 1)
                  /\ response.msg.questions =
                        <<DnsQuestion(encode_domain_name(CodecraftersIo), 1, 1)>>
                  /\ response.msg.answers =
                        <<DnsRecord(encode_domain_name(CodecraftersIo), 1, 1, 60,
                                    <<76, 76, 21, 21>>)>>
            /\ Sent => response.wire = DnsMessage_to_bytes(response.msg)
    /\ (pc = "recv" /\ datagram # <<>> /\ Len(datagram) >= 12) => sends = 1
    /\ pc \notin {"recv", "send_panic", "exited"} => sends = 0

\* the upstream did not answer a decoded request and the self-answered
\* response went out
C7_Witness ==
    /\ pc = "recv"
    /\ request.ok
    /\ ~result.ok
    /\ response.kind = "fallback"
    /\ upLog # <<>>

\* C8: once the listening socket is bound, main never leaves the receive loop
\* and never aborts
C8_OnlyBindFailureIsFatal == pc \notin {"exited", "send_panic"}

\* C5 as stated: scenario S1, self-answered, is 1234 8000 0001 0001 0000 0000,
\* the question, and one A record codecrafters.io TTL 60 -> 76.76.21.21
S1Tail ==
    <<12, 99, 111, 100, 101, 99, 114, 97, 102, 116, 101, 114, 115, 2, 105, 111, 0,
      0, 1, 0, 1,
      12, 99, 111, 100, 101, 99, 114, 97, 102, 116, 101, 114, 115, 2, 105, 111, 0,
      0, 1, 0, 1, 0, 0, 0, 60, 0, 4, 76, 76, 21, 21>>

C5_AsStated ==
    (datagram = RequestS1 /\ response.kind = "fallback") =>
        response.wire = <<18, 52, 128, 0, 0, 1, 0, 1, 0, 0, 0, 0>> \o S1Tail

\* C5 amended: the response header is 1234 8100 0001 0001 0000 0000 (RD is
\* copied from the request); the question and the answer are as stated
C5_ScenarioS1 ==
    (datagram = RequestS1 /\ response.kind = "fallback") =>
        response.wire = <<18, 52, 129, 0, 0, 1, 0, 1, 0, 0, 0, 0>> \o S1Tail

C5_Witness == datagram = RequestS1 /\ response.kind = "fallback"

\* ------------------------------------------------- DnsHeader::new on its own
HeaderIds == {0, 4660, 65535}

HeaderCounts == {<<0, 0>>, <<1, 1>>, <<2, 65535>>}

HeaderFlags == {0, 256, 2048, 34816, 65535}

HeaderArg(id, flags, c) == [h |-> DnsHeader(id, flags, 1, 0, 0, 0), q |-> c[1], a |-> c[2]]

\* every 16-bit flags word under one id and one pair of counts, and some
\* flags words under every id and every pair of counts
InitHeader ==
    /\ ServerInit
    /\ fn = "DnsHeader::new"
    /\ arg \in {HeaderArg(4660, flags, <<1, 1>>) : flags \in 0 .. U16 - 1}
               \cup {HeaderArg(id, flags, c) :
                        id \in HeaderIds, flags \in HeaderFlags, c \in HeaderCounts}
    /\ ret = <<>>

CallHeaderNew ==
    /\ fn = "DnsHeader::new"
    /\ ret' = DnsHeader_new(arg.h, arg.q, arg.a)
    /\ fn' = "DnsHeader::new returned"
    /\ UNCHANGED arg
    /\ UNCHANGED serverVars

SpecHeader == InitHeader /\ [][CallHeaderNew]_vars

\* the bit fields of a flags word, by arithmetic
QR(flags) == flags \div 32768

OPCODE(flags) == (flags \div 2048) % 16

AA(flags) == (flags \div 1024) % 2

TC(flags) == (flags \div 512) % 2

RD(flags) == (flags \div 256) % 2

RA(flags) == (flags \div 128) % 2

Z(flags) == (flags \div 16) % 8

RCODE(flags) == flags % 16

\* C4: DnsHeader::new(h, q, a) has id = h.id, QR = 1, OPCODE = h.OPCODE,
\* RD = h.RD, AA = TC = RA = 0, Z = 0, RCODE = 0 if h.OPCODE = 0 and 4
\* otherwise, qdcount = q, ancount = a, nscount = arcount = 0; request flags
\* 0x0800 give 0x8804
C4_ResponseHeader ==
    fn = "DnsHeader::new returned" =>
        /\ ret.id = arg.h.id
        /\ ret.flags \in 0 .. U16 - 1
        /\ QR(ret.flags) = 1
        /\ OPCODE(ret.flags) = OPCODE(arg.h.flags)
        /\ RD(ret.flags) = RD(arg.h.flags)
        /\ AA(ret.flags) = 0 /\ TC(ret.flags) = 0 /\ RA(ret.flags) = 0
        /\ Z(ret.flags) = 0
        /\ RCODE(ret.flags) = IF OPCODE(arg.h.flags) = 0 THEN 0 ELSE 4
        /\ ret.qdcount = arg.q /\ ret.ancount = arg.a
        /\ ret.nscount = 0 /\ ret.arcount = 0
        /\ arg.h.flags = 2048 => ret.flags = 34820

\* the header derived from request flags 0x0800
C4_Witness ==
    /\ fn = "DnsHeader::new returned"
    /\ arg.h.flags = 2048
    /\ ret.flags = 34820

\* ------------------------------------ to_bytes then from_bytes on its own
RootName == <<0>>

NameBcd == <<1, 97, 2, 98, 99, 0>>

\* one label of 64 bytes: its length byte has one of the two high bits set
LongLabelName == <<64>> \o [i \in 1 .. 64 |-> 120] \o <<0>>

RoundTripQuestions ==
    {DnsQuestion(RootName, 1, 1), DnsQuestion(NameA, 28, 1),
     DnsQuestion(NameBcd, 65535, 255), DnsQuestion(LongLabelName, 1, 1)}

\* A records; the last one's RDATA reads like a pointer and a terminator
RoundTripAnswers ==
    {DnsRecord(NameA, 1, 1, 60, <<76, 76, 21, 21>>),
     DnsRecord(RootName, 1, 1, 0, <<0, 0, 0, 0>>),
     DnsRecord(NameBcd, 1, 1, 2147483647, <<192, 12, 0, 255>>)}

\* (id, flags, ancount beyond the answers held, nscount, arcount): what
\* DnsHeader::new, the split template and a decoded upstream header can hold
RoundTripHeaders ==
    {<<0, 256, 0, 0, 0>>, <<4660, 33152, 0, 0, 0>>, <<4660, 33152, 1, 0, 0>>,
     <<7, 34820, 0, 1, 2>>}

RoundTripMessage(h, questions, answers) ==
    DnsMessage(DnsHeader(h[1], h[2], Len(questions), Len(answers) + h[3], h[4], h[5]),
               questions, answers)

InitRoundTrip ==
    /\ ServerInit
    /\ fn = "to_bytes"
    /\ arg \in {RoundTripMessage(h, qs, as) :
                  h \in RoundTripHeaders,
                  qs \in SeqsUpTo(RoundTripQuestions, MaxQuestions),
                  as \in SeqsUpTo(RoundTripAnswers, MaxAnswers)}
    /\ ret = <<>>

\* m.to_bytes()
CallToBytes ==
    /\ fn = "to_bytes"
    /\ ret' = DnsMessage_to_bytes(arg)
    /\ fn' = "from_bytes"
    /\ UNCHANGED arg
    /\ UNCHANGED serverVars

\* DnsMessage::from_bytes of those bytes
CallFromBytes ==
    /\ fn = "from_bytes"
    /\ ret' = DnsMessage_from_bytes(ret)
    /\ fn' = "from_bytes returned"
    /\ UNCHANGED arg
    /\ UNCHANGED serverVars

NextRoundTrip == CallToBytes \/ CallFromBytes

SpecRoundTrip == InitRoundTrip /\ [][NextRoundTrip]_vars

\* C9: from_bytes(m.to_bytes()) succeeds and equals m in header, questions and
\* answers, for messages with uncompressed names and A-record answers
C9_RoundTrip ==
    fn = "from_bytes returned" =>
        /\ ret.ok
        /\ ret.val.header = arg.header
        /\ ret.val.questions = arg.questions
        /\ ret.val.answers = arg.answers

\* a message of two questions and two answers came back
C9_Witness ==
    /\ fn = "from_bytes returned"
    /\ Len(arg.questions) = 2
    /\ Len(arg.answers) = 2
    /\ ret.ok
    /\ Len(ret.val.answers) = 2

\* ------------------------------------------------ parse_domain_name on its own
\* a terminator, label lengths and offsets 1..3, a pointer's first byte
NameBytes == {0, 1, 2, 3, 192}

\* n pointers, each to the next, then the name "a"
RECURSIVE PointerChain(_, _)
PointerChain(n, at) ==
    IF n = 0 THEN NameA ELSE <<192, at + 2>> \o PointerChain(n - 1, at + 2)

ChainLengths == {MAX_JUMPS - 1, MAX_JUMPS, MAX_JUMPS + 1}

NameArgs ==
    {[bytes |-> b, start |-> s] :
        b \in SeqsUpTo(NameBytes, MaxBufLen) \ {<<>>}, s \in 0 .. MaxBufLen - 1}
    \cup {[bytes |-> PointerChain(n, 0), start |-> s] : n \in ChainLengths, s \in {0, 2, 4}}

InitName ==
    /\ ServerInit
    /\ fn = "parse_domain_name"
    /\ arg \in {a \in NameArgs : a.start < Len(a.bytes)}
    /\ ret = <<>>

CallParseDomainName ==
    /\ fn = "parse_domain_name"
    /\ ret' = parse_domain_name(arg.bytes, arg.start)
    /\ fn' = "parse_domain_name returned"
    /\ UNCHANGED arg
    /\ UNCHANGED serverVars

SpecName == InitName /\ [][CallParseDomainName]_vars

IsPointer(b) == b >= 192

PointerTarget(bytes, pos) == (At(bytes, pos) - 192) * 256 + At(bytes, pos + 1)

\* the uncompressed bytes of the name at pos, following at most jumpsLeft
\* pointers; <<>> when there is no well-formed name at pos
RECURSIVE Uncompressed(_, _, _)
Uncompressed(bytes, pos, jumpsLeft) ==
    IF pos >= Len(bytes) THEN <<>>
    ELSE LET b == At(bytes, pos) IN
      IF b = 0 THEN <<0>>
      ELSE IF IsPointer(b)
      THEN IF pos + 1 >= Len(bytes) \/ jumpsLeft = 0 THEN <<>>
           ELSE Uncompressed(bytes, PointerTarget(bytes, pos), jumpsLeft - 1)
      ELSE IF pos + 1 + b > Len(bytes) THEN <<>>
      ELSE LET rest == Uncompressed(bytes, pos + 1 + b, jumpsLeft) IN
           IF rest = <<>> THEN <<>>
           ELSE <<b>> \o SubSeq(bytes, pos + 2, pos + 1 + b) \o rest

\* where the labels from pos first meet a pointer; -1 when they meet the
\* terminator or the end of the buffer first
RECURSIVE FirstPointer(_, _)
FirstPointer(bytes, pos) ==
    IF pos >= Len(bytes) THEN -1
    ELSE LET b == At(bytes, pos) IN
      IF b = 0 THEN -1
      ELSE IF IsPointer(b) THEN pos
      ELSE FirstPointer(bytes, pos + 1 + b)

\* C10: a pointer at start to a well-formed name decodes to the uncompressed
\* bytes of that name with consumed = 2; whenever a decode that met a pointer
\* succeeds, consumed = first_jump_pos - start + 2
C10_CompressedName ==
    fn = "parse_domain_name returned" =>
        LET bytes == arg.bytes
            start == arg.start
            first == FirstPointer(bytes, start)
        IN  /\ (first = start /\ start + 1 < Len(bytes)
                  /\ Uncompressed(bytes, PointerTarget(bytes, start), MAX_JUMPS - 1) # <<>>)
               => /\ ret.ok
                  /\ ret.val.name =
                        Uncompressed(bytes, PointerTarget(bytes, start), MAX_JUMPS - 1)
                  /\ ret.val.consumed = 2
            /\ (ret.ok /\ first >= 0) => ret.val.consumed = first - start + 2
            /\ (ret.ok /\ first >= 0) => ret.val.name = Uncompressed(bytes, start, MAX_JUMPS)

\* a label, then a pointer back to the start of the buffer: four bytes consumed
C10_Witness ==
    /\ fn = "parse_domain_name returned"
    /\ arg.start = 1
    /\ FirstPointer(arg.bytes, arg.start) = 3
    /\ ret.ok
    /\ ret.val.consumed = 4
    /\ Len(ret.val.name) = 3

\* ---------------------------------------- DnsMessage::from_bytes on its own
\* an answer whose name is a pointer to the first question's name
CompressedAnswerBytes ==
    <<192, 12>> \o put_u16(TypeA) \o put_u16(ClassIN) \o put_u32(300)
        \o put_u16(4) \o <<9, 9, 9, 9>>

DecodeQuestionBytes ==
    {DnsQuestion_to_bytes(DnsQuestion(NameA, TypeA, ClassIN)),
     DnsQuestion_to_bytes(DnsQuestion(RootName, TypeAAAA, ClassIN))}

DecodeAnswerBytes == {DnsRecord_to_bytes(RecordA), CompressedAnswerBytes}

RECURSIVE Concat(_)
Concat(seqs) == IF seqs = <<>> THEN <<>> ELSE Head(seqs) \o Concat(Tail(seqs))

Prefixes(bytes) == {SubSeq(bytes, 1, k) : k \in 0 .. Len(bytes)}

\* a header that announces at least the questions that follow and any number
\* of answers, then the questions and answers, cut off anywhere
SectionBuffers(questions, answers) ==
    UNION {
      {DnsHeader_to_bytes(DnsHeader(4660, 33152, qd, an, 0, 0)) \o body :
          qd \in Len(qs) .. questions, an \in 0 .. answers,
          body \in Prefixes(Concat(qs) \o Concat(as))} :
      qs \in SeqsUpTo(DecodeQuestionBytes, questions),
      as \in SeqsUpTo(DecodeAnswerBytes, answers) }

\* a header with any counts, then any few bytes
\* a terminator, a label length, a pointer's first byte
RawBytes == {0, 1, 192}

RawBuffers(questions, answers, length) ==
    {DnsHeader_to_bytes(DnsHeader(7, 256, qd, an, 0, 0)) \o body :
        qd \in 0 .. questions, an \in 0 .. answers,
        body \in SeqsUpTo(RawBytes, length)}

\* a header cut off anywhere
ShortBuffers == Prefixes(DnsHeader_to_bytes(DnsHeader(4660, 256, 1, 0, 0, 0)))

InitDecode ==
    /\ ServerInit
    /\ fn = "DnsMessage::from_bytes"
    /\ arg \in SectionBuffers(MaxQuestions, MaxAnswers)
                \cup RawBuffers(MaxQuestions, MaxAnswers, MaxBufLen)
                \cup ShortBuffers
    /\ ret = <<>>

CallDecode ==
    /\ fn = "DnsMessage::from_bytes"
    /\ ret' = DnsMessage_from_bytes(arg)
    /\ fn' = "DnsMessage::from_bytes returned"
    /\ UNCHANGED arg
    /\ UNCHANGED serverVars

SpecDecode == InitDecode /\ [][CallDecode]_vars

\* where the k-th question of the buffer starts; -1 when an earlier one does
\* not decode
RECURSIVE QuestionStart(_, _)
QuestionStart(bytes, k) ==
    IF k = 1 THEN HeaderLen
    ELSE LET before == QuestionStart(bytes, k - 1) IN
      IF before < 0 THEN -1
      ELSE LET q == DnsQuestion_from_bytes(bytes, before) IN
           IF q.ok THEN before + q.val.consumed ELSE -1

QuestionAt(bytes, k) ==
    LET start == QuestionStart(bytes, k) IN
    IF start < 0 THEN Err("An earlier question failed")
    ELSE DnsQuestion_from_bytes(bytes, start)

\* where the k-th record after qdcount questions starts; -1 when an earlier
\* question or record does not decode
RECURSIVE AnswerStart(_, _, _)
AnswerStart(bytes, qdcount, k) ==
    IF k = 1 THEN QuestionStart(bytes, qdcount + 1)
    ELSE LET before == AnswerStart(bytes, qdcount, k - 1) IN
      IF before < 0 THEN -1
      ELSE LET r == DnsRecord_from_bytes(bytes, before) IN
           IF r.ok THEN before + r.val.consumed ELSE -1

AnswerAt(bytes, qdcount, k) ==
    LET start == AnswerStart(bytes, qdcount, k) IN
    IF start < 0 THEN Err("An earlier record failed")
    ELSE DnsRecord_from_bytes(bytes, start)

\* C11: from_bytes fails exactly when the header or one of the qdcount
\* questions fails, with the error of the first question that fails; when it
\* succeeds the message holds the qdcount questions in order, and the answers
\* are the records that decode one after the other from the end of the
\* questions, up to the first that fails or ancount of them
C11_SectionPolicy ==
    fn = "DnsMessage::from_bytes returned" =>
        LET header == DnsHeader_from_bytes(arg)
            qdcount == header.val.qdcount
            ancount == header.val.ancount
        IN  /\ ~header.ok => ret = header
            /\ header.ok =>
                  /\ ret.ok <=> \A k \in 1 .. qdcount : QuestionAt(arg, k).ok
                  /\ ~ret.ok =>
                        \E k \in 1 .. qdcount :
                            /\ \A j \in 1 .. k - 1 : QuestionAt(arg, j).ok
                            /\ ~QuestionAt(arg, k).ok
                            /\ ret = QuestionAt(arg, k)
                  /\ ret.ok =>
                        /\ ret.val.header = header.val
                        /\ Len(ret.val.questions) = qdcount
                        /\ \A k \in 1 .. qdcount :
                              ret.val.questions[k] = QuestionAt(arg, k).val.item
                        /\ Len(ret.val.answers) <= ancount
                        /\ \A k \in 1 .. Len(ret.val.answers) :
                              /\ AnswerAt(arg, qdcount, k).ok
                              /\ ret.val.answers[k] = AnswerAt(arg, qdcount, k).val.item
                        /\ Len(ret.val.answers) < ancount =>
                              ~AnswerAt(arg, qdcount, Len(ret.val.answers) + 1).ok

\* two answers announced, the second cut off: Ok with the question and the
\* first answer
C11_Witness ==
    /\ fn = "DnsMessage::from_bytes returned"
    /\ ret.ok
    /\ ret.val.header.qdcount = 1
    /\ ret.val.header.ancount = 2
    /\ Len(ret.val.questions) = 1
    /\ Len(ret.val.answers) = 1
    /\ Len(arg) > AnswerStart(arg, 1, 2)

\* ------------------------------------------------ DnsMessage::new on its own
\* 1000 is the largest type that is not taken for an A question
RespondTypes == {0, TypeA, TypeAAAA, 1000, 1001, 4242, 65535}

RespondClasses == {ClassIN, 255}

RespondQuestions ==
    {DnsQuestion(n, t, c) : n \in {NameA, NameB}, t \in RespondTypes,
                            c \in RespondClasses}

InitRespond ==
    /\ ServerInit
    /\ fn = "DnsMessage::new"
    /\ arg \in {ClientRequest(h, qs) :
                  h \in ClientHeaders, qs \in SeqsUpTo(RespondQuestions, MaxQuestions)}
    /\ ret = <<>>

CallRespond ==
    /\ fn = "DnsMessage::new"
    /\ ret' = new_response_from_request(arg)
    /\ fn' = "DnsMessage::new returned"
    /\ UNCHANGED arg
    /\ UNCHANGED serverVars

SpecRespond == InitRespond /\ [][CallRespond]_vars

IsKept(question) == question.record_type = 1 \/ question.record_type > 1000

\* C12: the response's questions are the request's questions of type 1 or
\* above 1000, in request order, each as (name, 1, 1); its answers are one A
\* record per kept question (same name, type 1, class 1, TTL 60, RDATA
\* 76.76.21.21); qdcount = ancount = the number of kept questions
C12_SelfResponse ==
    fn = "DnsMessage::new returned" =>
        LET kept == SelectSeq(arg.questions, IsKept)
            n == Len(kept)
        IN  /\ ret.questions = [k \in 1 .. n |-> [name |-> kept[k].name,
                                                    record_type |-> 1, class |-> 1]]
            /\ ret.answers = [k \in 1 .. n |-> [name |-> kept[k].name,
                                                  record_type |-> 1, class |-> 1,
                                                  ttl |-> 60,
                                                  rdata |-> <<76, 76, 21, 21>>]]
            /\ ret.header.qdcount = n
            /\ ret.header.ancount = n

\* an AAAA question dropped and a question of type 4242 kept and answered
C12_Witness ==
    /\ fn = "DnsMessage::new returned"
    /\ Len(arg.questions) = 2
    /\ arg.questions[1].record_type = TypeAAAA
    /\ arg.questions[2].record_type = 4242
    /\ arg.questions[2].class = 255
    /\ Len(ret.questions) = 1
    /\ ret.questions[1].record_type = 1
    /\ Len(ret.answers) = 1

\* ------------------------------- the server with a slow, truthful resolver
NameC == <<1, 99, 0>>

\* questions with three different names
DelayedQuestions ==
    {DnsQuestion(NameA, TypeA, ClassIN), DnsQuestion(NameB, TypeAAAA, ClassIN),
     DnsQuestion(NameC, TypeA, ClassIN)}

\* requests that ask each name at most once, and a cut-off request
DelayedDatagrams ==
    {DnsMessage_to_bytes(ClientRequest(<<4660, 256>>, qs)) :
        qs \in {s \in SeqsUpTo(DelayedQuestions, Cardinality(DelayedQuestions)) :
                  \A i, j \in 1 .. Len(s) : s[i] = s[j] => i = j}}
    \cup {SubSeq(RequestS1, 1, 20)}

ReceiveDelayed == Receive(DelayedDatagrams)

\* the server's steps, where the only datagrams that reach the forwarding
\* socket are the resolver's replies to the sub-queries sent on it, each at
\* any later receive or never
NextDelayed ==
    \/ ListenBind
    \/ ReceiveDelayed
    \/ ReceiveError
    \/ HeaderFallback
    \/ FwdBind
    \/ FwdSetTimeout
    \/ SplitSend
    \/ SplitRecvDelayed
    \/ SplitRecvError
    \/ SplitFinish
    \/ SingleSend
    \/ SingleRecvDelayed
    \/ SingleRecvError
    \/ SendForwarded
    \/ SendFallback

SpecDelayed == Init /\ [][NextDelayed]_vars

SplitEntered == request.ok /\ Len(request.val.questions) > 1 /\ idx >= 1

\* the first question of the request that has this name; 0 when none has
QuestionOf(name) ==
    LET named == {i \in 1 .. Len(request.val.questions) :
                     request.val.questions[i].name = name}
    IN  IF named = {} THEN 0 ELSE CHOOSE i \in named : \A j \in named : i <= j

\* a sub-query is sent when the one before it failed to send or its receive
\* has returned or failed, and the first is sent first
SubQueriesOneAtATime ==
    \A p \in 1 .. Len(upLog) :
        upLog[p].op = "send" =>
            IF p = 1 THEN upLog[p].q = 1
            ELSE /\ upLog[p].q = upLog[p - 1].q + 1
                 /\ upLog[p - 1].op = "recv" \/ ~upLog[p - 1].ok

AnswersInQuestionOrder ==
    \A p, q \in 1 .. Len(combined.answers) :
        p < q => QuestionOf(combined.answers[p].name) <= QuestionOf(combined.answers[q].name)

\* the client is answered after the last sub-query failed to send or its
\* receive has returned or failed
ClientAnsweredAfterLast ==
    sends > 0 =>
        /\ upLog # <<>>
        /\ upLog[Len(upLog)].q = Len(request.val.questions)
        /\ upLog[Len(upLog)].op = "recv" \/ ~upLog[Len(upLog)].ok

\* C13: in split mode sub-queries are sent one at a time in question order,
\* the combined response holds all answers for question i before any answer
\* for a later question whatever the delay of the resolver's replies, and the
\* client is answered only after the last sub-query has completed or failed
C13_SplitOrdering ==
    SplitEntered =>
        /\ SubQueriesOneAtATime
        /\ AnswersInQuestionOrder
        /\ ClientAnsweredAfterLast

\* the sequencing alone: sub-queries one at a time in question order, the
\* client answered after the last
SplitSequencing ==
    SplitEntered => SubQueriesOneAtATime /\ ClientAnsweredAfterLast

\* ------------------------------------------ failures on the forwarding socket
IsSend(entry) == entry.op = "send"

SendAttempts == SelectSeq(upLog, IsSend)

SingleEntered == request.ok /\ Len(request.val.questions) <= 1 /\ upLog # <<>>

\* split mode: the j-th send is for question j, a receive follows the
\* successful send for the same question and nothing else, the entry after a
\* failed send or after any receive is the send for the next question, and the
\* loop ends when every question has had its send
SplitFailureTransitions ==
    /\ \A j \in 1 .. Len(SendAttempts) : SendAttempts[j].q = j
    /\ \A p \in 2 .. Len(upLog) :
          /\ upLog[p].op = "recv" =>
                upLog[p - 1].op = "send" /\ upLog[p - 1].ok /\ upLog[p - 1].q = upLog[p].q
          /\ upLog[p].op = "send" => upLog[p].q = upLog[p - 1].q + 1
    /\ pc = "split_send" => Len(SendAttempts) = idx - 1
    /\ pc = "split_recv" => Len(SendAttempts) = idx /\ upLog[Len(upLog)].op = "send"
    /\ pc \notin {"split_send", "split_recv"} =>
          Len(SendAttempts) = Len(request.val.questions)

\* single question: one send and at most one receive after it; a failed send,
\* a failed receive or a reply that does not decode is the last I/O and
\* forward_query returns an error
SingleFailureTransitions ==
    /\ Len(upLog) <= 2
    /\ upLog[1].op = "send"
    /\ Len(upLog) = 2 => upLog[2].op = "recv" /\ upLog[1].ok
    /\ pc = "single_recv" => Len(upLog) = 1 /\ upLog[1].ok
    /\ pc # "single_recv" =>
          /\ ~upLog[1].ok => Len(upLog) = 1
          /\ upLog[1].ok => Len(upLog) = 2
          /\ ~upLog[1].ok =>
                result = Err("Failed to send request to external DNS server")
          /\ (Len(upLog) = 2 /\ ~upLog[2].ok) =>
                result = Err("Failed to receive response from external DNS server")
          /\ result.ok => \A p \in 1 .. Len(upLog) : upLog[p].ok

\* C14: in split mode a send, receive or decode failure on a sub-query moves
\* to the next one, every question gets exactly one send and none is retried;
\* with a single question a send, receive or decode failure ends forwarding in
\* an error with no further I/O on the forwarding socket
C14_FailureTransitions ==
    /\ SplitEntered => SplitFailureTransitions
    /\ SingleEntered => SingleFailureTransitions

\* two questions: the first send fails, the receive for the second fails, and
\* the loop has ended with a send for each
C14_Witness ==
    /\ SplitEntered
    /\ pc = "split_done"
    /\ Len(upLog) = 3
    /\ ~upLog[1].ok
    /\ upLog[2].ok /\ upLog[2].q = 2
    /\ upLog[3].op = "recv" /\ ~upLog[3].ok

\* ------------------------------- parse_domain_name, iteration by iteration
\* the loop before its first iteration
Entered(start_pos) ==
    [done |-> FALSE, st |-> NameState(start_pos, <<>>, 0, FALSE, 0), iterations |-> 0]

InitNameLoop ==
    /\ ServerInit
    /\ fn = "parse_domain_name loop"
    /\ arg \in {a \in NameArgs : a.start < Len(a.bytes)}
    /\ ret = Entered(arg.start)

\* one iteration: the loop goes on with new locals, or the function returns
IterateName ==
    /\ fn = "parse_domain_name loop"
    /\ ~ret.done
    /\ LET it == NameIteration(arg.bytes, arg.start, ret.st) IN
         ret' = IF it.done
                THEN [done |-> TRUE, res |-> it.res, jumps |-> ret.st.jumps,
                      iterations |-> ret.iterations + 1]
                ELSE [done |-> FALSE, st |-> it.st, iterations |-> ret.iterations + 1]
    /\ UNCHANGED <<fn, arg>>
    /\ UNCHANGED serverVars

SpecNameLoop == InitNameLoop /\ [][IterateName]_vars

\* what following the name at pos meets first: its terminator ("ok"), the end
\* of the buffer inside a label, a pointer or before the terminator
\* ("truncated"), or an eleventh pointer ("too many jumps")
RECURSIVE Follow(_, _, _)
Follow(bytes, pos, jumped) ==
    IF pos >= Len(bytes) THEN "truncated"
    ELSE LET b == At(bytes, pos) IN
      IF b = 0 THEN "ok"
      ELSE IF IsPointer(b)
      THEN IF pos + 1 >= Len(bytes) THEN "truncated"
           ELSE IF jumped = 10 THEN "too many jumps"
           ELSE Follow(bytes, PointerTarget(bytes, pos), jumped + 1)
      ELSE IF pos + 1 + b > Len(bytes) THEN "truncated"
      ELSE Follow(bytes, pos + 1 + b, jumped)

\* each of at most eleven pointers is followed by fewer label iterations than
\* the buffer has bytes
IterationBound(bytes) == (MAX_JUMPS + 1) * (Len(bytes) + 1)

\* C15: on every buffer and start position the loop of parse_domain_name ends
\* within IterationBound iterations; a name whose terminator is met after at
\* most 10 pointers decodes successfully, a name that meets an eleventh
\* pointer fails with "Too many compression pointers, possible loop", any
\* other name fails with an error value
C15_NameDecodeTerminates ==
    fn = "parse_domain_name loop" =>
        /\ ret.iterations <= IterationBound(arg.bytes)
        /\ ~ret.done => ret.iterations < IterationBound(arg.bytes)
        /\ ret.done =>
              LET met == Follow(arg.bytes, arg.start, 0) IN
              /\ met = "ok" => ret.res.ok /\ ret.jumps <= 10
              /\ met = "too many jumps" =>
                    ret.res = Err("Too many compression pointers, possible loop")
              /\ met = "truncated" => ~ret.res.ok /\ ~ret.res.panic

\* a pointer to itself: the loop ends at its eleventh iteration
C15_Witness ==
    /\ fn = "parse_domain_name loop"
    /\ arg.bytes = <<192, 0>>
    /\ arg.start = 0
    /\ ret.done
    /\ ret.iterations = 11
    /\ ret.res = Err("Too many compression pointers, possible loop")

\* ------------------------------------------------ reads within the buffer
Aborted(res) == ~res.ok /\ res.panic

\* C16: whatever the buffer and the counts of its header, from_bytes returns Ok
\* or an error value: no index or range it uses lies outside the buffer and
\* the subtraction that computes consumed does not underflow
C16_DecodeStaysInBuffer ==
    fn = "DnsMessage::from_bytes returned" => ~Aborted(ret)

\* a question whose name ends less than four bytes before the end of the
\* buffer: an error value
C16_Witness ==
    /\ fn = "DnsMessage::from_bytes returned"
    /\ Len(arg) > HeaderLen
    /\ parse_domain_name(arg, HeaderLen).ok
    /\ Len(arg) < HeaderLen + parse_domain_name(arg, HeaderLen).val.consumed + 4
    /\ ret = Err("Buffer too small for question record type and class")

====
